---- MODULE Spec2Model ----
(***************************************************************************)
(* Fragrance Analytics Dashboard (src/app.py): the analytic data pipeline  *)
(* of the Streamlit script, as a state machine.                            *)
(*                                                                         *)
(* One run of the script is the chain                                      *)
(*   load_data -> gate -> sidebar filter -> fallback -> ratings tab ->     *)
(*   brands tab -> geographic tab -> notes tab -> done,                    *)
(* and Streamlit reruns the script from the top on every interaction.      *)
(*                                                                         *)
(* Representation of values.                                               *)
(*   text      a sequence of character codes (naturals); 0 is a blank.     *)
(*             Python compares str by code point, so lexicographic order   *)
(*             on these sequences is the order sorted() uses.              *)
(*   NaN       the empty sequence: read_csv turns an empty field into NaN. *)
(*   number    the one-element sequence <<v>>; ratings are in tenths       *)
(*             (45 is 4.5).                                                *)
(*   row       a function from column name to cell.                        *)
(*   table     a sequence of rows (a DataFrame in row order).              *)
(*   None      the record NoneValue.                                       *)
(* Charts and page layout are not modelled: only the data they are given.  *)
(***************************************************************************)
EXTENDS Integers, Sequences, FiniteSets, TLC

(***************************************************************************)
(* Bounds of the model.                                                    *)
(***************************************************************************)
MaxFilterRows == 2     \* rows of a table of the categorical family
MaxRatingRows == 3     \* rows of a table of the ratings family
MaxNoteRows == 2       \* rows of a table of the notes family
MaxWide == 17          \* rows of the largest table of the wide family
MaxPick == 2           \* options a user picks among in one multiselect
MaxChanges == 2        \* times the file changes on disk during a session
MaxN == 2              \* largest top_n get_top_notes is tried with besides 15

(***************************************************************************)
(* Program constants.                                                      *)
(***************************************************************************)
BrandK == 5            \* brands[:5]
CountryK == 10         \* countries[:10]
TopRows == 10          \* nlargest(10, ...)
TopGroups == 15        \* .head(15)
TopNotes == 15         \* get_top_notes(..., 15)

NaN == <<>>

\* What load_data returns: None, or a DataFrame with its rows in order.
NoneValue == [isNone |-> TRUE, rows |-> <<>>]
DataFrame(rows) == [isNone |-> FALSE, rows |-> rows]

notna(x) == x # NaN

Min(a, b) == IF a <= b THEN a ELSE b

(***************************************************************************)
(* Text: order and sorting.                                                *)
(***************************************************************************)
RECURSIVE StrLess(_, _)
\* a < b for Python str: the first differing character decides, a proper
\* prefix is smaller.
StrLess(a, b) ==
    IF a = <<>> THEN b # <<>>
    ELSE IF b = <<>> THEN FALSE
    ELSE IF Head(a) # Head(b) THEN Head(a) < Head(b)
    ELSE StrLess(Tail(a), Tail(b))

StrMin(S) == CHOOSE a \in S : \A b \in S : a = b \/ StrLess(a, b)

RECURSIVE sorted(_)
\* sorted(iterable of distinct str): ascending list.
sorted(S) ==
    IF S = {} THEN <<>>
    ELSE LET m == StrMin(S) IN <<m>> \o sorted(S \ {m})

Range(s) == {s[i] : i \in 1..Len(s)}

\* s[:k]
Prefix(s, k) == SubSeq(s, 1, Min(k, Len(s)))

RECURSIVE SelectRows(_, _)
\* The rows of t at which keep holds, in t's order (boolean-mask indexing).
SelectRows(t, keep) ==
    IF t = <<>> THEN <<>>
    ELSE (IF keep[1] THEN <<Head(t)>> ELSE <<>>)
         \o SelectRows(Tail(t), [i \in 1..(Len(t) - 1) |-> keep[i + 1]])

(***************************************************************************)
(* The file on disk and load_data.                                         *)
(***************************************************************************)
Columns ==
    {"Perfume", "Brand", "Country", "Gender", "Rating Value", "Rating Count",
     "Year", "Top", "Middle", "Base"}

\* numeric_cols
numeric_cols == {"Rating Value", "Rating Count", "Year"}

\* A field of a numeric column as read_csv hands it to to_numeric: NaN (an
\* empty field), a numeric literal, or text that is no number.
RawNum(v) == [numeric |-> TRUE, value |-> v]
RawText == [numeric |-> FALSE, value |-> 0]
RawEmpty == [numeric |-> FALSE, value |-> 0 - 1]

\* pd.to_numeric(cell, errors='coerce')
to_numeric(c) == IF c.numeric THEN <<c.value>> ELSE NaN

\* One parsed line of the file.
RawRow(p, b, c, g, rv, rc, top) ==
    [col \in Columns |->
        CASE col = "Perfume" -> <<p>>
          [] col = "Brand" -> b
          [] col = "Country" -> c
          [] col = "Gender" -> g
          [] col = "Rating Value" -> rv
          [] col = "Rating Count" -> rc
          [] col = "Year" -> RawNum(2000 + p)
          [] col = "Top" -> top
          [] col = "Middle" -> top
          [] col = "Base" -> NaN]

\* The for loop of load_data over numeric_cols, on one row.
CoerceRow(r) ==
    [col \in DOMAIN r |-> IF col \in numeric_cols THEN to_numeric(r[col]) ELSE r[col]]

(***************************************************************************)
(* Files the model runs the script on.                                     *)
(***************************************************************************)
\* Distinct names whose sorted order is not their index order:
\* 0,1,2 are one character long, the others two.
Name(k) == IF k < 3 THEN <<k + 1>> ELSE <<(k % 3) + 1, k \div 3>>

BrandA == <<1>>
BrandB == <<2>>
France == <<6>>
Italy == <<9>>
Men == <<13>>
rose == <<18, 15, 19, 5>>
musk == <<13, 21, 19, 11>>
Rose == <<50, 15, 19, 5>>
Blank == <<0>>

\* Cells of a notes column.
NoteCells ==
    {NaN,
     Blank \o Blank,
     rose \o Blank \o rose \o Blank \o musk,
     Blank \o musk \o Blank \o Blank \o rose \o Blank,
     Rose \o Blank \o musk}

AllRowSeqs(D, n) == UNION {[1..k -> D] : k \in 0..n}

\* Number the rows of a table: Perfume is the position in the file.
Numbered(t) == [i \in 1..Len(t) |-> [t[i] EXCEPT !["Perfume"] = <<i>>]]

\* Tables that differ in the categorical columns (missing gender included).
FilterRows ==
    {RawRow(0, b, c, Men, RawNum(40), RawNum(10), NaN) :
        b \in {BrandA, BrandB}, c \in {France, Italy}}
    \cup {RawRow(0, BrandA, France, NaN, RawNum(40), RawNum(10), NaN),
          RawRow(0, BrandB, Italy, NaN, RawNum(40), RawNum(10), NaN)}

\* Tables that differ in brand and rating (missing and unparsable included).
RatingRows ==
    {RawRow(0, BrandA, France, Men, RawText, RawNum(10), NaN),
     RawRow(0, BrandA, France, Men, RawNum(30), RawNum(10), NaN),
     RawRow(0, BrandB, France, Men, RawNum(30), RawEmpty, NaN),
     RawRow(0, BrandB, France, Men, RawNum(45), RawNum(10), NaN)}

\* Tables that differ in the notes cell.
NoteRows ==
    {RawRow(0, BrandA, France, Men, RawNum(40), RawNum(10), top) : top \in NoteCells}

\* Row i of a wide table: many brands, a country of its own, ratings with a
\* few ties and gaps, two note tokens.
WideRow(i) ==
    RawRow(i,
           Name((i * 3) % 7),
           Name((i * 5) % 18),
           (IF i % 4 = 0 THEN NaN ELSE Name(i % 3)),
           (IF i % 5 = 0 THEN RawEmpty
            ELSE IF i % 7 = 0 THEN RawText ELSE RawNum(30 + ((i * 7) % 13))),
           (IF i % 6 = 0 THEN RawEmpty ELSE RawNum(10 * ((i * 3) % 4))),
           Name(i) \o Blank \o Name((i * 2) % 19))

WideTable(n) == [i \in 1..n |-> WideRow(i)]

\* Sizes on both sides of every cut-off of the program.
WideSizes ==
    {BrandK, BrandK + 1, CountryK, CountryK + 1, TopGroups, TopGroups + 1, MaxWide}

Csv(rows) == [kind |-> "csv", rows |-> rows]
MissingFile == [kind |-> "missing", rows |-> <<>>]
\* A file read_csv cannot parse at all (for instance an empty file).
UnparsableFile == [kind |-> "unparsable", rows |-> <<>>]

TableFiles ==
    {Csv(Numbered(t)) : t \in AllRowSeqs(FilterRows, MaxFilterRows)}
    \cup {Csv(Numbered(t)) : t \in AllRowSeqs(RatingRows, MaxRatingRows)}
    \cup {Csv(Numbered(t)) : t \in AllRowSeqs(NoteRows, MaxNoteRows)}
    \cup {Csv(WideTable(n)) : n \in WideSizes}

Files == TableFiles \cup {MissingFile, UnparsableFile}

\* The few files of the sessions in which the file changes on disk.
SessionFiles ==
    {MissingFile, UnparsableFile,
     Csv(Numbered(<<RawRow(0, BrandA, France, Men, RawNum(45), RawNum(10), rose)>>)),
     Csv(Numbered(<<RawRow(0, BrandB, Italy, Men, RawText, RawEmpty, musk),
                    RawRow(0, BrandA, France, NaN, RawNum(30), RawNum(10), NaN)>>))}

(***************************************************************************)
(* load_data.                                                              *)
(***************************************************************************)
MsgNotFound == "Dataset file 'fra_cleaned.csv' not found."
MsgError == "Error loading dataset: "
MsgUnable == "Unable to load the dashboard."

\* What pd.read_csv raises on the file, "none" when it parses.
read_csv_raises(file) ==
    CASE file.kind = "missing" -> "FileNotFoundError"
      [] file.kind = "unparsable" -> "Exception"
      [] OTHER -> "none"

\* A variant of load_data without the except Exception clause: only a
\* missing file is caught.
load_data_no_catch_all(file) ==
    LET exc == read_csv_raises(file) IN
    CASE exc = "none" ->
            [value |-> DataFrame([i \in 1..Len(file.rows) |-> CoerceRow(file.rows[i])]),
             errors |-> <<>>, raised |-> "none"]
      [] exc = "FileNotFoundError" ->
            [value |-> NoneValue, errors |-> <<MsgNotFound>>, raised |-> "none"]
      [] OTHER ->
            [value |-> NoneValue, errors |-> <<>>, raised |-> exc]

\* The body of load_data: the value returned, the st.error messages it
\* renders, and the exception that leaves it ("none": it returns normally).
load_data(file) ==
    LET exc == read_csv_raises(file) IN
    CASE exc = "none" ->
            [value |-> DataFrame([i \in 1..Len(file.rows) |-> CoerceRow(file.rows[i])]),
             errors |-> <<>>, raised |-> "none"]
      [] exc = "FileNotFoundError" ->
            [value |-> NoneValue, errors |-> <<MsgNotFound>>, raised |-> "none"]
      [] OTHER ->
            [value |-> NoneValue, errors |-> <<MsgError>>, raised |-> "none"]

(***************************************************************************)
(* Sidebar filters (lines 76-103) and the empty-result fallback (115-117). *)
(***************************************************************************)
\* df[col].dropna().unique()
unique(t, col) == {t[i][col] : i \in 1..Len(t)} \ {NaN}

\* .astype(str) on the distinct values of a text column: a str stays as it is.
astype_str(v) == v

\* sorted(df[col].dropna().unique().astype(str))
Options(t, col) == sorted({astype_str(v) : v \in unique(t, col)})

\* A variant of default_brands without the cut to the first five.
default_brands_uncut(brands) == brands

\* default_brands = brands[:5] if len(brands) > 5 else brands
default_brands(brands) ==
    IF Len(brands) > BrandK THEN Prefix(brands, BrandK) ELSE brands

\* default_countries = countries[:10] if len(countries) > 10 else countries
default_countries(countries) ==
    IF Len(countries) > CountryK THEN Prefix(countries, CountryK) ELSE countries

\* default_genders = genders
default_genders(genders) == genders

\* What st.sidebar.multiselect can return: the user's picks among the
\* options, here nothing, one of the first MaxPick options, the first k of
\* them, or every option.
Picks(options) ==
    {Prefix(options, k) : k \in 0..MaxPick}
    \cup {<<options[k]>> : k \in 1..Min(MaxPick, Len(options))}
    \cup {options}

\* if not selected: selected = default
OrDefault(selection, default) == IF selection = <<>> THEN default ELSE selection

\* Series.isin(values)
isin(v, values) == v \in Range(values)

\* A variant of the filter that leaves the gender mask out.
FilterRowsOf_NoGender(t, sel) ==
    SelectRows(t, [i \in 1..Len(t) |->
        /\ isin(t[i]["Brand"], sel.brands)
        /\ isin(t[i]["Country"], sel.countries)])

\* df[(df['Brand'].isin(..)) & (df['Country'].isin(..)) & (df['Gender'].isin(..))]
FilterRowsOf(t, sel) ==
    SelectRows(t, [i \in 1..Len(t) |->
        /\ isin(t[i]["Brand"], sel.brands)
        /\ isin(t[i]["Country"], sel.countries)
        /\ isin(t[i]["Gender"], sel.genders)])

\* df.copy()
copy(t) == t

\* A variant without the fallback: an empty result stays empty.
Fallback_None(filtered, t) == filtered

\* if len(filtered_df) == 0: filtered_df = df.copy()
Fallback(filtered, t) == IF Len(filtered) = 0 THEN copy(t) ELSE filtered

(***************************************************************************)
(* Summary statistics (lines 159-168).  A statistic is NaN or an exact     *)
(* fraction <<p, q>> in lowest terms, q > 0, in tenths.                    *)
(***************************************************************************)
RECURSIVE Gcd(_, _)
Gcd(a, b) == IF b = 0 THEN a ELSE Gcd(b, a % b)

Frac(p, q) == LET g == Gcd(p, q) IN IF g = 0 THEN <<0, 1>> ELSE <<p \div g, q \div g>>

FracLess(x, y) == x[1] * y[2] < y[1] * x[2]

RECURSIVE Values_MissingAsZero(_, _)
\* A variant of Values that reads a missing value as 0.
Values_MissingAsZero(t, col) ==
    IF t = <<>> THEN <<>>
    ELSE (IF notna(Head(t)[col]) THEN <<Head(t)[col][1]>> ELSE <<0>>)
         \o Values_MissingAsZero(Tail(t), col)

\* The non-missing values of a column, in row order (skipna).
RECURSIVE Values(_, _)
Values(t, col) ==
    IF t = <<>> THEN <<>>
    ELSE (IF notna(Head(t)[col]) THEN <<Head(t)[col][1]>> ELSE <<>>)
         \o Values(Tail(t), col)

RECURSIVE SumSeq(_)
SumSeq(v) == IF v = <<>> THEN 0 ELSE Head(v) + SumSeq(Tail(v))

RECURSIVE SumSq(_)
SumSq(v) == IF v = <<>> THEN 0 ELSE Head(v) * Head(v) + SumSq(Tail(v))

RECURSIVE RemoveFirst(_, _)
RemoveFirst(v, x) ==
    IF v = <<>> THEN <<>>
    ELSE IF Head(v) = x THEN Tail(v) ELSE <<Head(v)>> \o RemoveFirst(Tail(v), x)

RECURSIVE SortAsc(_)
SortAsc(v) ==
    IF v = <<>> THEN <<>>
    ELSE LET m == CHOOSE x \in Range(v) : \A y \in Range(v) : x <= y
         IN <<m>> \o SortAsc(RemoveFirst(v, m))

\* Series.mean()
mean(t, col) ==
    LET v == Values(t, col) IN
    IF v = <<>> THEN NaN ELSE Frac(SumSeq(v), Len(v))

\* Series.median(): the middle value, or the mean of the two middle values.
median(t, col) ==
    LET v == SortAsc(Values(t, col))
        n == Len(v)
    IN IF n = 0 THEN NaN
       ELSE IF n % 2 = 1 THEN Frac(v[(n + 1) \div 2], 1)
       ELSE Frac(v[n \div 2] + v[n \div 2 + 1], 2)

\* Series.std() squared: the sample variance (ddof = 1), NaN below two values.
std_squared(t, col) ==
    LET v == Values(t, col)
        n == Len(v)
    IN IF n < 2 THEN NaN
       ELSE Frac(n * SumSq(v) - SumSeq(v) * SumSeq(v), n * (n - 1))

\* df[col].notna().sum()
count(t, col) == Len(Values(t, col))

\* round(p / q) to the nearest integer, ties to even.
RoundDiv(p, q) ==
    LET f == p \div q
        r == p % q
    IN IF 2 * r < q THEN f
       ELSE IF 2 * r > q THEN f + 1
       ELSE IF f % 2 = 0 THEN f ELSE f + 1

RECURSIVE RoundSqrtFrom(_, _, _)
\* The least h from h0 on with p/q < (h + 1/2)^2: sqrt(p/q) to the nearest integer.
RoundSqrtFrom(p, q, h) ==
    IF 4 * p < (2 * h + 1) * (2 * h + 1) * q THEN h ELSE RoundSqrtFrom(p, q, h + 1)

NotAvailable == [na |-> TRUE, hundredths |-> 0]

\* f"{x:.2f}" if pd.notna(x) else "N/A", x in tenths: the text shown, as the
\* number of hundredths it reads.
Metric(x) ==
    IF notna(x) THEN [na |-> FALSE, hundredths |-> RoundDiv(10 * x[1], x[2])]
    ELSE NotAvailable

\* The same for the standard deviation, given its square.
MetricSqrt(x) ==
    IF notna(x) THEN [na |-> FALSE, hundredths |-> RoundSqrtFrom(100 * x[1], x[2], 0)]
    ELSE NotAvailable

\* The three metrics of the ratings tab.
summarize(t, col) ==
    [mean |-> mean(t, col), median |-> median(t, col),
     std_squared |-> std_squared(t, col), count |-> count(t, col),
     avg_metric |-> Metric(mean(t, col)),
     med_metric |-> Metric(median(t, col)),
     std_metric |-> MetricSqrt(std_squared(t, col))]

(***************************************************************************)
(* Top-N rows (lines 174, 179).                                            *)
(***************************************************************************)
\* The rows with a value in col / with none, in row order.
Defined(t, col) == SelectRows(t, [i \in 1..Len(t) |-> notna(t[i][col])])
Undefined(t, col) == SelectRows(t, [i \in 1..Len(t) |-> ~notna(t[i][col])])

\* The first position where t holds value v in col.
FirstIndex(t, col, v) ==
    CHOOSE i \in 1..Len(t) :
        /\ t[i][col][1] = v
        /\ \A j \in 1..(i - 1) : t[j][col][1] # v

RemoveAt(t, i) == SubSeq(t, 1, i - 1) \o SubSeq(t, i + 1, Len(t))

RECURSIVE SortRowsDesc(_, _)
\* Rows with a value in col, descending, equal values in row order
\* (keep='first'; the mergesort of the selection).
SortRowsDesc(t, col) ==
    IF t = <<>> THEN <<>>
    ELSE LET top == CHOOSE x \in {t[i][col][1] : i \in 1..Len(t)} :
                        \A i \in 1..Len(t) : t[i][col][1] <= x
             k == FirstIndex(t, col, top)
         IN <<t[k]>> \o SortRowsDesc(RemoveAt(t, k), col)

\* frame[[...]]: the named columns only.
Project(t, cols) == [i \in 1..Len(t) |-> [c \in cols |-> t[i][c]]]

\* A variant of nlargest that drops the rows without a value.
nlargest_dropna(t, n, col) == Prefix(SortRowsDesc(Defined(t, col), col), n)

\* DataFrame.nlargest(n, col): the n largest values first, then, while fewer
\* than n rows are taken, the rows without a value, in row order.
nlargest(t, n, col) ==
    Prefix(Prefix(SortRowsDesc(Defined(t, col), col), n) \o Undefined(t, col), n)

\* filtered_df.nlargest(10, 'Rating Value')[['Perfume', 'Brand', 'Rating Value']]
top_rated(t) ==
    Project(nlargest(t, TopRows, "Rating Value"), {"Perfume", "Brand", "Rating Value"})

\* filtered_df.nlargest(10, 'Rating Count')[['Perfume', 'Brand', 'Rating Count']]
most_reviewed(t) ==
    Project(nlargest(t, TopRows, "Rating Count"), {"Perfume", "Brand", "Rating Count"})

(***************************************************************************)
(* Grouped ranking (lines 202, 234).                                       *)
(***************************************************************************)
\* .dropna(subset=['Rating Value'])
dropna(t, col) == Defined(t, col)

\* .groupby(group)[col].agg(['mean', 'count']): one entry per group key, in
\* sorted key order; rows without a key belong to no group.
groupby_agg(t, group, col) ==
    LET keys == sorted(unique(t, group)) IN
    [k \in 1..Len(keys) |->
        LET rows == SelectRows(t, [i \in 1..Len(t) |-> t[i][group] = keys[k]])
        IN [key |-> keys[k], mean |-> mean(rows, col), count |-> count(rows, col)]]

RECURSIVE sort_values_desc(_)
\* .sort_values('mean', ascending=False): the sort is the default quicksort,
\* which is not stable, so entries with equal means come out in any order.
\* The set of the orders it can produce.
sort_values_desc(entries) ==
    IF entries = {} THEN {<<>>}
    ELSE UNION {
            {<<e>> \o rest : rest \in sort_values_desc(entries \ {e})} :
            e \in {x \in entries : \A y \in entries : ~FracLess(x.mean, y.mean)}}

\* The rankings the chain of line 202 / 234 can produce.
group_rank(t, group, col, n) ==
    LET agg == groupby_agg(dropna(t, col), group, col)
    IN {Prefix(order, n) : order \in sort_values_desc(Range(agg))}

(***************************************************************************)
(* Notes (lines 250-259).                                                  *)
(***************************************************************************)
\* str.isspace() of one character
IsSpace(c) == c = 0

\* notes.strip(): true (non-empty) when some character is no white space.
strip_nonempty(cell) == \E i \in 1..Len(cell) : ~IsSpace(cell[i])

RECURSIVE split_from(_, _)
\* notes.split(): the maximal runs of non-space characters, in order.
\* cur is the token being read.
split_from(cell, cur) ==
    IF cell = <<>> THEN (IF cur = <<>> THEN <<>> ELSE <<cur>>)
    ELSE IF IsSpace(Head(cell))
         THEN (IF cur = <<>> THEN <<>> ELSE <<cur>>) \o split_from(Tail(cell), <<>>)
         ELSE split_from(Tail(cell), Append(cur, Head(cell)))

split(cell) == split_from(cell, <<>>)

\* isinstance(notes, str): a cell of a notes column that is not NaN is text.
isinstance_str(cell) == TRUE

RECURSIVE Occurrences(_, _)
Occurrences(s, x) ==
    IF s = <<>> THEN 0
    ELSE (IF Head(s) = x THEN 1 ELSE 0) + Occurrences(Tail(s), x)

RECURSIVE Distinct(_, _)
\* The distinct elements of s in order of first occurrence (the key order
\* of the Counter).
Distinct(s, seen) ==
    IF s = <<>> THEN <<>>
    ELSE IF Head(s) \in seen THEN Distinct(Tail(s), seen)
    ELSE <<Head(s)>> \o Distinct(Tail(s), seen \cup {Head(s)})

RECURSIVE all_notes_once_per_row(_, _)
\* A variant of all_notes that counts a token once per row.
all_notes_once_per_row(t, col_name) ==
    IF t = <<>> THEN <<>>
    ELSE LET notes == Head(t)[col_name] IN
         (IF notna(notes) /\ isinstance_str(notes) /\ strip_nonempty(notes)
          THEN Distinct(split(notes), {}) ELSE <<>>)
         \o all_notes_once_per_row(Tail(t), col_name)

RECURSIVE all_notes(_, _)
\* The for loop: every token of every cell that is present and not blank.
all_notes(t, col_name) ==
    IF t = <<>> THEN <<>>
    ELSE LET notes == Head(t)[col_name] IN
         (IF notna(notes) /\ isinstance_str(notes) /\ strip_nonempty(notes)
          THEN split(notes) ELSE <<>>)
         \o all_notes(Tail(t), col_name)

\* Counter(all_notes).items()
Counter(s) ==
    LET keys == Distinct(s, {}) IN
    [k \in 1..Len(keys) |-> <<keys[k], Occurrences(s, keys[k])>>]

RECURSIVE SortItemsDesc(_)
\* sorted(items, key=count, reverse=True): stable, so equal counts keep
\* the order of the items.
SortItemsDesc(items) ==
    IF items = <<>> THEN <<>>
    ELSE LET k == CHOOSE i \in 1..Len(items) :
                    /\ \A j \in 1..Len(items) : items[j][2] <= items[i][2]
                    /\ \A j \in 1..(i - 1) : items[j][2] < items[i][2]
         IN <<items[k]>> \o SortItemsDesc(RemoveAt(items, k))

\* Counter.most_common(n)
most_common(items, n) == Prefix(SortItemsDesc(items), n)

\* get_top_notes(col_name, top_n) on filtered_df = t: the pairs of the dict
\* returned, in its order.
get_top_notes(t, col_name, top_n) ==
    IF col_name \in Columns
    THEN most_common(Counter(all_notes(t, col_name)), top_n)
    ELSE most_common(Counter(<<>>), top_n)

(***************************************************************************)
(* The script as a state machine.                                          *)
(***************************************************************************)
VARIABLES
    resource,         \* fra_cleaned.csv as it is on disk now
    changes,          \* how often the file has changed on disk
    reads,            \* how often the body of load_data has run
    cache,            \* the st.cache_data entry of load_data
    pc,               \* where the running script is
    df,               \* df = load_data()
    page,             \* the st.error messages on the page
    supplied,         \* what the three multiselects returned
    selected,         \* selected_brands / _countries / _genders after line 96
    sidebar_metric,   \* st.sidebar.metric("Filtered Results", ...)
    filtered_df,      \* filtered_df
    ratings_tab,      \* the metrics and the two top-10 tables of tab 2
    brand_ratings,    \* brand_ratings of tab 3
    country_ratings,  \* country_ratings of tab 4
    notes_tab         \* the three get_top_notes results of tab 5

vars ==
    <<resource, changes, reads, cache, pc, df, page, supplied, selected,
      sidebar_metric, filtered_df, ratings_tab, brand_ratings, country_ratings,
      notes_tab>>

Unset == <<>>
EmptyCache == [filled |-> FALSE, entry |-> [value |-> NoneValue, errors |-> <<>>, raised |-> "none"]]

outputs ==
    <<supplied, selected, sidebar_metric, filtered_df, ratings_tab, brand_ratings,
      country_ratings, notes_tab>>

OutputsUnset ==
    /\ supplied = Unset
    /\ selected = Unset
    /\ sidebar_metric = Unset
    /\ filtered_df = Unset
    /\ ratings_tab = Unset
    /\ brand_ratings = Unset
    /\ country_ratings = Unset
    /\ notes_tab = Unset

StartOn(files) ==
    /\ resource \in files
    /\ changes = 0
    /\ reads = 0
    /\ cache = EmptyCache
    /\ pc = "load"
    /\ df = NoneValue
    /\ page = <<>>
    /\ OutputsUnset

\* The process starts with an empty cache, on any of the files.
Init == StartOn(Files)

\* The same on the few files of the sessions in which the file changes.
InitSession == StartOn(SessionFiles)

\* df = load_data() under @st.cache_data: the body runs when the cache holds
\* no entry (the function takes no argument and its key does not depend on
\* the file); otherwise the cached value is returned and the cached st.error
\* messages are replayed.  An exception leaving the body ends the run.
LoadData ==
    /\ pc = "load"
    /\ IF cache.filled
       THEN /\ df' = cache.entry.value
            /\ page' = cache.entry.errors
            /\ pc' = "gate"
            /\ UNCHANGED <<cache, reads>>
       ELSE LET r == load_data(resource) IN
            /\ reads' = reads + 1
            /\ IF r.raised = "none"
               THEN /\ cache' = [filled |-> TRUE, entry |-> r]
                    /\ df' = r.value
                    /\ page' = r.errors
                    /\ pc' = "gate"
               ELSE /\ pc' = "crashed"
                    /\ UNCHANGED <<cache, df, page>>
    /\ UNCHANGED <<resource, changes, outputs>>

\* if df is not None: ... else: st.error(...)
Gate ==
    /\ pc = "gate"
    /\ IF ~df.isNone
       THEN pc' = "sidebar" /\ page' = page
       ELSE pc' = "done" /\ page' = Append(page, MsgUnable)
    /\ UNCHANGED <<resource, changes, reads, cache, df, outputs>>

\* A variant of the sidebar step that filters in place (df = df[...]).
Sidebar_InPlace ==
    /\ pc = "sidebar"
    /\ LET brands == Options(df.rows, "Brand")
           countries == Options(df.rows, "Country")
           genders == Options(df.rows, "Gender")
       IN \E sb \in Picks(brands), sc \in Picks(countries), sg \in Picks(genders) :
            LET sel == [brands |-> OrDefault(sb, default_brands(brands)),
                        countries |-> OrDefault(sc, default_countries(countries)),
                        genders |-> OrDefault(sg, default_genders(genders))]
            IN /\ supplied' = [brands |-> sb, countries |-> sc, genders |-> sg]
               /\ selected' = sel
               /\ df' = DataFrame(FilterRowsOf(df.rows, sel))
               /\ filtered_df' = FilterRowsOf(df.rows, sel)
               /\ sidebar_metric' = Len(FilterRowsOf(df.rows, sel))
    /\ pc' = "fallback"
    /\ UNCHANGED <<resource, changes, reads, cache, page, ratings_tab,
                   brand_ratings, country_ratings, notes_tab>>

\* Lines 76-105: the options, the defaults, the widgets, the filter.
Sidebar ==
    /\ pc = "sidebar"
    /\ LET brands == Options(df.rows, "Brand")
           countries == Options(df.rows, "Country")
           genders == Options(df.rows, "Gender")
       IN \E sb \in Picks(brands), sc \in Picks(countries), sg \in Picks(genders) :
            LET sel == [brands |-> OrDefault(sb, default_brands(brands)),
                        countries |-> OrDefault(sc, default_countries(countries)),
                        genders |-> OrDefault(sg, default_genders(genders))]
            IN /\ supplied' = [brands |-> sb, countries |-> sc, genders |-> sg]
               /\ selected' = sel
               /\ filtered_df' = FilterRowsOf(df.rows, sel)
               /\ sidebar_metric' = Len(FilterRowsOf(df.rows, sel))
    /\ pc' = "fallback"
    /\ UNCHANGED <<resource, changes, reads, cache, df, page, ratings_tab,
                   brand_ratings, country_ratings, notes_tab>>

\* Lines 115-117.
EmptyResultFallback ==
    /\ pc = "fallback"
    /\ filtered_df' = Fallback(filtered_df, df.rows)
    /\ pc' = "ratings"
    /\ UNCHANGED <<resource, changes, reads, cache, df, page, supplied, selected,
                   sidebar_metric, ratings_tab, brand_ratings, country_ratings,
                   notes_tab>>

\* Tab 2, lines 159-180.
RatingsTab ==
    /\ pc = "ratings"
    /\ ratings_tab' = [stats |-> summarize(filtered_df, "Rating Value"),
                       top_rated |-> top_rated(filtered_df),
                       most_reviewed |-> most_reviewed(filtered_df)]
    /\ pc' = "brands"
    /\ UNCHANGED <<resource, changes, reads, cache, df, page, supplied, selected,
                   sidebar_metric, filtered_df, brand_ratings, country_ratings,
                   notes_tab>>

\* Tab 3, line 202.
BrandsTab ==
    /\ pc = "brands"
    /\ brand_ratings' \in group_rank(filtered_df, "Brand", "Rating Value", TopGroups)
    /\ pc' = "geographic"
    /\ UNCHANGED <<resource, changes, reads, cache, df, page, supplied, selected,
                   sidebar_metric, filtered_df, ratings_tab, country_ratings,
                   notes_tab>>

\* Tab 4, line 234.
GeographicTab ==
    /\ pc = "geographic"
    /\ country_ratings' \in group_rank(filtered_df, "Country", "Rating Value", TopGroups)
    /\ pc' = "notes"
    /\ UNCHANGED <<resource, changes, reads, cache, df, page, supplied, selected,
                   sidebar_metric, filtered_df, ratings_tab, brand_ratings,
                   notes_tab>>

\* Tab 5, lines 250-293.
NotesTab ==
    /\ pc = "notes"
    /\ notes_tab' = [Top |-> get_top_notes(filtered_df, "Top", TopNotes),
                     Middle |-> get_top_notes(filtered_df, "Middle", TopNotes),
                     Base |-> get_top_notes(filtered_df, "Base", TopNotes)]
    /\ pc' = "done"
    /\ UNCHANGED <<resource, changes, reads, cache, df, page, supplied, selected,
                   sidebar_metric, filtered_df, ratings_tab, brand_ratings,
                   country_ratings>>

\* Any interaction reruns the script from its first line; the names of the
\* previous run are gone, the cache of the process is not.
Rerun ==
    /\ pc = "done"
    /\ pc' = "load"
    /\ df' = NoneValue
    /\ page' = <<>>
    /\ supplied' = Unset
    /\ selected' = Unset
    /\ sidebar_metric' = Unset
    /\ filtered_df' = Unset
    /\ ratings_tab' = Unset
    /\ brand_ratings' = Unset
    /\ country_ratings' = Unset
    /\ notes_tab' = Unset
    /\ UNCHANGED <<resource, changes, reads, cache>>

\* The environment: the file is replaced, removed or created on disk.
ChangeResource ==
    /\ changes < MaxChanges
    /\ resource' \in SessionFiles \ {resource}
    /\ changes' = changes + 1
    /\ UNCHANGED <<reads, cache, pc, df, page, outputs>>

Next ==
    \/ LoadData
    \/ Gate
    \/ Sidebar
    \/ EmptyResultFallback
    \/ RatingsTab
    \/ BrandsTab
    \/ GeographicTab
    \/ NotesTab
    \/ Rerun

Spec == Init /\ [][Next]_vars

NextSession == Next \/ ChangeResource

SpecSession == InitSession /\ [][NextSession]_vars

(***************************************************************************)
(* Properties.                                                             *)
(***************************************************************************)
\* The script has passed the filter of lines 99-103 in this run.
Filtered == pc \in {"fallback", "ratings", "brands", "geographic", "notes"}
            \/ (pc = "done" /\ ~df.isNone)

\* The script has passed the fallback of lines 115-117 in this run.
FellBack == pc \in {"ratings", "brands", "geographic", "notes"}
            \/ (pc = "done" /\ ~df.isNone)

\* Row r has its brand, country and gender each in the selection.
Matches(r, sel) ==
    /\ r["Brand"] \in Range(sel.brands)
    /\ r["Country"] \in Range(sel.countries)
    /\ r["Gender"] \in Range(sel.genders)

MatchingIndices == {i \in 1..Len(df.rows) : Matches(df.rows[i], selected)}

\* C1: when at least one row matches the effective selection, the filtered
\* table is exactly the matching rows of the loaded table in their original
\* order: its k-th row is the k-th matching row, none dropped, none added.
C1_FilterIsMatchingSubsequence ==
    (Filtered /\ sidebar_metric > 0) =>
        /\ Len(filtered_df) = Cardinality(MatchingIndices)
        /\ \A k \in 1..Len(filtered_df) :
              \E i \in MatchingIndices :
                  /\ Cardinality({j \in MatchingIndices : j <= i}) = k
                  /\ filtered_df[k] = df.rows[i]

\* A run whose filter, with two brands selected by the user, keeps two or
\* more rows and drops at least one.
C1_Witness ==
    /\ pc = "ratings"
    /\ Len(supplied.brands) >= 2
    /\ Len(filtered_df) >= 2
    /\ Len(filtered_df) < Len(df.rows)
    /\ \E i \in 1..Len(df.rows) : df.rows[i]["Gender"] = NaN

IsFirstKSorted(sel, col, k) ==
    LET domain == {df.rows[i][col] : i \in 1..Len(df.rows)} \ {NaN} IN
    /\ Len(sel) = Min(k, Cardinality(domain))
    /\ Range(sel) \subseteq domain
    /\ \A i \in 1..(Len(sel) - 1) : StrLess(sel[i], sel[i + 1])
    /\ \A v \in domain \ Range(sel) : \A i \in 1..Len(sel) : StrLess(sel[i], v)

\* C3: a dimension whose multiselect returned nothing is filtered by the
\* first K sorted distinct values of its column in the unfiltered table
\* (5 brands, 10 countries, every gender); a non-empty selection is used
\* as it is.
C3_DefaultSelection ==
    Filtered =>
        /\ IF supplied.brands = <<>>
           THEN IsFirstKSorted(selected.brands, "Brand", BrandK)
           ELSE selected.brands = supplied.brands
        /\ IF supplied.countries = <<>>
           THEN IsFirstKSorted(selected.countries, "Country", CountryK)
           ELSE selected.countries = supplied.countries
        /\ IF supplied.genders = <<>>
           THEN IsFirstKSorted(selected.genders, "Gender", Len(df.rows))
           ELSE selected.genders = supplied.genders

\* A run with nothing selected on a table of more than five brands and more
\* than ten countries: five brands and ten countries are in effect.
C3_Witness ==
    /\ Filtered
    /\ supplied.brands = <<>>
    /\ supplied.countries = <<>>
    /\ Len(Options(df.rows, "Brand")) > BrandK
    /\ Len(Options(df.rows, "Country")) > CountryK
    /\ Len(selected.brands) = BrandK
    /\ Len(selected.countries) = CountryK

\* The run has called load_data and did not die in it.
Loaded == pc \notin {"load", "crashed"}

\* No query step has run in this run.
NoQueryRan == OutputsUnset /\ pc \in {"gate", "done"}

\* C4 as stated: load never lets an exception escape, a missing resource
\* gives the NotFound failure and any other failure the Malformed failure,
\* and the value the caller holds tells the two apart (no load that failed
\* the other way returns the same value); after a failure no query step
\* runs and the caller renders an error.
C4_FailuresDistinguishable ==
    /\ pc # "crashed"
    /\ (Loaded /\ read_csv_raises(resource) # "none") =>
          /\ df.isNone
          /\ NoQueryRan
          /\ pc = "done" => page[Len(page)] = MsgUnable
          /\ \A f \in {MissingFile, UnparsableFile} :
                load_data(f).value = df => read_csv_raises(f) = read_csv_raises(resource)

\* C4 as the code has it: load never lets an exception escape and returns
\* a table exactly when the file parses; a missing resource and any other
\* failure both return None, and differ only in the message load_data
\* renders; after a failure no query step runs and the caller renders
\* its own error last.
C4_FailureIsNoneWithMessage ==
    /\ pc # "crashed"
    /\ Loaded =>
          /\ df.isNone <=> read_csv_raises(resource) # "none"
          /\ read_csv_raises(resource) = "none" => page = <<>>
          /\ read_csv_raises(resource) = "FileNotFoundError" => page[1] = MsgNotFound
          /\ read_csv_raises(resource) = "Exception" => page[1] = MsgError
          /\ df.isNone =>
                /\ NoQueryRan
                /\ pc = "done" => page[Len(page)] = MsgUnable /\ Len(page) = 2
    /\ MsgNotFound # MsgError

\* A finished run on a file that read_csv could not parse.
C4_Witness ==
    /\ pc = "done"
    /\ df.isNone
    /\ read_csv_raises(resource) = "Exception"
    /\ page = <<MsgError, MsgUnable>>

\* C5: a load reads the file only on the first call while it is unchanged
\* (never more often than the file has had contents), and every load returns
\* what the file as it is at the call gives, a changed file and a cached
\* failure included.
C5_CacheFollowsResource ==
    [][(pc = "load" /\ pc' = "gate") =>
          /\ df' = load_data(resource).value
          /\ reads' <= changes + 1]_vars

\* C10: once loaded, the table is never changed by a query step: in every
\* state after the load df is what load_data built from the file, and the
\* filtered table is made of rows of it.
C10_LoadedTableUnchanged ==
    /\ Loaded => df = load_data(resource).value
    /\ cache.filled => cache.entry = load_data(resource)
    /\ (Filtered /\ filtered_df # <<>>) =>
          \A k \in 1..Len(filtered_df) : \E i \in 1..Len(df.rows) : filtered_df[k] = df.rows[i]

\* A finished run whose filter kept some rows and dropped others.
C10_Witness ==
    /\ pc = "done"
    /\ ~df.isNone
    /\ sidebar_metric > 0
    /\ Len(filtered_df) < Len(df.rows)
    /\ Len(notes_tab.Top) > 0

\* The token occurrences of column Top of the table the tabs work on: every
\* maximal run of non-blank characters <<row, first, last>> of a present cell.
TokenRuns ==
    {run \in UNION {{<<i, a, b>> : a \in 1..Len(filtered_df[i]["Top"]),
                                   b \in 1..Len(filtered_df[i]["Top"])} :
                    i \in 1..Len(filtered_df)} :
        LET cell == filtered_df[run[1]]["Top"]
            a == run[2]
            b == run[3]
        IN /\ a <= b
           /\ \A j \in a..b : cell[j] # 0
           /\ (a = 1 \/ cell[a - 1] = 0)
           /\ (b = Len(cell) \/ cell[b + 1] = 0)}

TokenOf(run) == SubSeq(filtered_df[run[1]]["Top"], run[2], run[3])

TokenSet == {TokenOf(run) : run \in TokenRuns}

\* How often each token occurs over all rows.
TokenCount(runs) ==
    [tok \in {TokenOf(run) : run \in runs} |->
        Cardinality({run \in runs : TokenOf(run) = tok})]

\* Where each token first occurs in the row-by-row scan: <<row, position>>.
FirstOccurrence(runs) ==
    [tok \in {TokenOf(run) : run \in runs} |->
        LET first == CHOOSE rx \in runs :
                        /\ TokenOf(rx) = tok
                        /\ \A ry \in runs :
                              TokenOf(ry) = tok =>
                                  (rx[1] < ry[1] \/ (rx[1] = ry[1] /\ rx[2] <= ry[2]))
        IN <<first[1], first[2]>>]

\* Token x ranks above token y: a higher count, or the same count and an
\* earlier first occurrence.
RanksAbove(x, y, cnt, first) ==
    \/ cnt[x] > cnt[y]
    \/ /\ cnt[x] = cnt[y]
       /\ (first[x][1] < first[y][1]
           \/ (first[x][1] = first[y][1] /\ first[x][2] < first[y][2]))

\* res is the top n of the token counts cnt, first occurrences first.
IsTopOf(res, n, cnt, first) ==
    /\ Len(res) = Min(n, Cardinality(DOMAIN cnt))
    /\ \A k \in 1..Len(res) :
          /\ res[k][1] \in DOMAIN cnt
          /\ res[k][2] = cnt[res[k][1]]
    /\ \A k \in 1..Len(res) : \A l \in (k + 1)..Len(res) :
          RanksAbove(res[k][1], res[l][1], cnt, first)
    /\ \A tok \in (DOMAIN cnt) \ {res[k][1] : k \in 1..Len(res)} :
          \A k \in 1..Len(res) : RanksAbove(res[k][1], tok, cnt, first)

\* res is the top n of the token counts of column Top.
IsTopTokens(res, n) ==
    LET runs == TokenRuns
        cnt == TokenCount(runs)
        first == FirstOccurrence(runs)
    IN IsTopOf(res, n, cnt, first)

RoseRoseMusk == rose \o Blank \o rose \o Blank \o musk

UnratedRow == CoerceRow(RawRow(0, BrandA, France, Men, RawEmpty, RawNum(10), NaN))

InsertAt(t, i, r) == SubSeq(t, 1, i - 1) \o <<r>> \o SubSeq(t, i, Len(t))

RatedIndices == {i \in 1..Len(filtered_df) : filtered_df[i]["Rating Value"] # NaN}

RECURSIVE RatingSum(_)
\* The sum of the ratings of the rows at the positions S.
RatingSum(S) ==
    IF S = {} THEN 0
    ELSE LET i == CHOOSE j \in S : TRUE
         IN filtered_df[i]["Rating Value"][1] + RatingSum(S \ {i})

\* C7: the statistics are taken over the non-missing ratings only: the count
\* is the number of non-missing values, the mean times the count is their
\* sum, a further row without a rating changes nothing wherever it is put,
\* and with no rating at all every statistic is undefined and shown as
\* not available.
C7_SummarizeSkipsMissing ==
    pc = "brands" =>
        LET st == ratings_tab.stats IN
        /\ st.count = Cardinality(RatedIndices)
        /\ st.count > 0 =>
              /\ st.mean # NaN
              /\ st.mean[1] * st.count = st.mean[2] * RatingSum(RatedIndices)
        /\ \A i \in 1..(Len(filtered_df) + 1) :
              summarize(InsertAt(filtered_df, i, UnratedRow), "Rating Value") = st
        /\ st.count = 0 =>
              /\ st.mean = NaN /\ st.median = NaN /\ st.std_squared = NaN
              /\ st.avg_metric = NotAvailable
              /\ st.med_metric = NotAvailable
              /\ st.std_metric = NotAvailable

\* The table with ratings 4.5, missing, 3.0: mean 3.75, count 2, median 3.75,
\* variance over the two values.
C7_Witness ==
    /\ pc = "brands"
    /\ Len(filtered_df) = 3
    /\ filtered_df[1]["Rating Value"] = <<45>>
    /\ filtered_df[2]["Rating Value"] = NaN
    /\ filtered_df[3]["Rating Value"] = <<30>>
    /\ ratings_tab.stats.mean = <<75, 2>>
    /\ ratings_tab.stats.count = 2
    /\ ratings_tab.stats.median = <<75, 2>>
    /\ ratings_tab.stats.std_squared = <<225, 2>>
    /\ ratings_tab.stats.avg_metric = [na |-> FALSE, hundredths |-> 375]
    /\ ratings_tab.stats.std_metric = [na |-> FALSE, hundredths |-> 106]

\* Row k of res holds a value in col.
HasValue(res, k, col) == res[k][col] # NaN

\* res lists rows of the table in descending order of col, rows of equal
\* value in their order in the file, rows without a value after all others.
IsRankedDesc(res, col) ==
    \A k \in 1..Len(res) : \A l \in (k + 1)..Len(res) :
        \/ ~HasValue(res, l, col) /\ HasValue(res, k, col)
        \/ /\ ~HasValue(res, l, col) /\ ~HasValue(res, k, col)
           /\ res[k]["Perfume"][1] < res[l]["Perfume"][1]
        \/ /\ HasValue(res, k, col) /\ HasValue(res, l, col)
           /\ \/ res[k][col][1] > res[l][col][1]
              \/ /\ res[k][col][1] = res[l][col][1]
                 /\ res[k]["Perfume"][1] < res[l]["Perfume"][1]

\* res holds rows of the table the tabs work on, cut to the three columns,
\* and no row of the table left out ranks above a row of res.
IsTopOfTable(res, col) ==
    /\ \A k \in 1..Len(res) :
          /\ DOMAIN res[k] = {"Perfume", "Brand", col}
          /\ \E i \in 1..Len(filtered_df) :
                \A c \in DOMAIN res[k] : res[k][c] = filtered_df[i][c]
    /\ \A i \in 1..Len(filtered_df) :
          (\A k \in 1..Len(res) : res[k]["Perfume"] # filtered_df[i]["Perfume"]) =>
              \A k \in 1..Len(res) :
                  \/ filtered_df[i][col] = NaN
                  \/ /\ HasValue(res, k, col)
                     /\ \/ res[k][col][1] > filtered_df[i][col][1]
                        \/ /\ res[k][col][1] = filtered_df[i][col][1]
                           /\ res[k]["Perfume"][1] < filtered_df[i]["Perfume"][1]

DefinedCount(col) == Cardinality({i \in 1..Len(filtered_df) : filtered_df[i][col] # NaN})

RatingsRan == pc \in {"brands", "geographic", "notes"}

\* C8 as stated: the top rows are sorted descending with ties in row order,
\* a row without a value never above one with a value, and their number is
\* min(n, rows with a defined value).
C8_LengthIsMinOfDefined ==
    RatingsRan =>
        /\ IsRankedDesc(ratings_tab.top_rated, "Rating Value")
        /\ IsRankedDesc(ratings_tab.most_reviewed, "Rating Count")
        /\ IsTopOfTable(ratings_tab.top_rated, "Rating Value")
        /\ IsTopOfTable(ratings_tab.most_reviewed, "Rating Count")
        /\ Len(ratings_tab.top_rated) = Min(TopRows, DefinedCount("Rating Value"))
        /\ Len(ratings_tab.most_reviewed) = Min(TopRows, DefinedCount("Rating Count"))

\* C8 as the code has it: the same order, and the number of rows is
\* min(n, rows of the table): rows without a value fill the list, after
\* every row with a value, when fewer than n rows have one.
C8_LengthIsMinOfRows ==
    RatingsRan =>
        /\ IsRankedDesc(ratings_tab.top_rated, "Rating Value")
        /\ IsRankedDesc(ratings_tab.most_reviewed, "Rating Count")
        /\ IsTopOfTable(ratings_tab.top_rated, "Rating Value")
        /\ IsTopOfTable(ratings_tab.most_reviewed, "Rating Count")
        /\ Len(ratings_tab.top_rated) = Min(TopRows, Len(filtered_df))
        /\ Len(ratings_tab.most_reviewed) = Min(TopRows, Len(filtered_df))

\* A table of more than ten rows, fewer than ten of them rated: the list of
\* the top rated has ten rows and ends with a row without a rating; the
\* list of the most reviewed starts with a tie.
C8_Witness ==
    /\ pc = "brands"
    /\ Len(filtered_df) > TopRows
    /\ DefinedCount("Rating Value") < TopRows
    /\ Len(ratings_tab.top_rated) = TopRows
    /\ ratings_tab.top_rated[TopRows]["Rating Value"] = NaN
    /\ DefinedCount("Rating Count") >= TopRows
    /\ ratings_tab.most_reviewed[1]["Rating Count"] = ratings_tab.most_reviewed[2]["Rating Count"]

\* res ranks groups of the table the tabs work on by mean rating: each entry
\* is a group with a rated row, with the mean and the count of its rated
\* rows, at most n of them, no group left out that has a higher mean.
IsGroupRanking(res, group, n) ==
    LET rated == {i \in 1..Len(filtered_df) :
                     filtered_df[i]["Rating Value"] # NaN /\ filtered_df[i][group] # NaN}
        keys == {filtered_df[i][group] : i \in rated}
        total(k) == SumSeq(Values(SelectRows(filtered_df,
                        [i \in 1..Len(filtered_df) |-> i \in rated /\ filtered_df[i][group] = k]),
                        "Rating Value"))
        size(k) == Cardinality({i \in rated : filtered_df[i][group] = k})
    IN /\ Len(res) = Min(n, Cardinality(keys))
       /\ \A a \in 1..Len(res) :
             /\ res[a].key \in keys
             /\ res[a].count = size(res[a].key)
             /\ res[a].mean = Frac(total(res[a].key), size(res[a].key))
       /\ \A a \in 1..Len(res) : \A b \in (a + 1)..Len(res) :
             res[a].key # res[b].key /\ ~FracLess(res[a].mean, res[b].mean)
       /\ \A k \in keys \ {res[a].key : a \in 1..Len(res)} :
             \A a \in 1..Len(res) : ~FracLess(res[a].mean, Frac(total(k), size(k)))

\* Groups of equal mean are in the order of their keys.
TiesByKey(res) ==
    \A a \in 1..Len(res) : \A b \in (a + 1)..Len(res) :
        res[a].mean = res[b].mean => StrLess(res[a].key, res[b].key)

\* C9: the grouped ranking has at most n entries (key, mean, count) over
\* the rated rows only, by mean descending, equal means by group key, and
\* no group without a rated row.
C9_GroupRankTiesByKey ==
    /\ pc \in {"geographic", "notes"} =>
          /\ IsGroupRanking(brand_ratings, "Brand", TopGroups)
          /\ TiesByKey(brand_ratings)
    /\ pc = "notes" =>
          /\ IsGroupRanking(country_ratings, "Country", TopGroups)
          /\ TiesByKey(country_ratings)

\* The part of C9 that holds whatever the order of equal means.
C9_GroupRankBesidesTies ==
    /\ pc \in {"geographic", "notes"} => IsGroupRanking(brand_ratings, "Brand", TopGroups)
    /\ pc = "notes" => IsGroupRanking(country_ratings, "Country", TopGroups)

====
